---- MODULE Spec2Model ----
(***************************************************************************)
(* A model of src/src/simd/lines_bwd.rs: the backward line scanner of the  *)
(* editor, its scalar fallback, its four vector backends and the process-  *)
(* wide dispatch slot.                                                     *)
(*                                                                         *)
(* The haystack is a byte span of which the code only ever asks "is this   *)
(* byte a line feed"; it is therefore kept as its length and the set of    *)
(* indices that hold b'\n'.  Pointers are kept as indices relative to the  *)
(* haystack's first byte (`beg`), and the address of `beg` modulo the      *)
(* widest vector register as `base`, so that `end.addr()` is base + end.   *)
(***************************************************************************)
EXTENDS Integers, Sequences, FiniteSets, TLC

(***************************************************************************)
(* Bounds of the model.                                                    *)
(***************************************************************************)
\* Length of the longest haystack.
MaxLen == 170
\* Most line feeds in a haystack.
MaxLFs == 2
\* Width in bits of the signed CoordType (isize in the program; TLC's
\* integers are 32 bits wide, so the width is scaled down; it is kept wide
\* enough for a line counter of 0 minus one whole chunk of line feeds).
CoordBits == 9
\* Largest non-extreme line counter a call is made with.
MaxLine == 2

(***************************************************************************)
(* Program constants.                                                      *)
(***************************************************************************)
\* Bytes of a 256-bit register (AVX2, LASX): `end.addr() & 31`.
W256 == 32
\* Bytes of a 128-bit register (LSX, NEON): `end.addr() & 15`.
W128 == 16
\* Registers loaded by one iteration of the wide loop (v1..v4).
WideRegs == 4

CoordMin == -(2 ^ (CoordBits - 1))
CoordMax == (2 ^ (CoordBits - 1)) - 1

Min(a, b) == IF a <= b THEN a ELSE b

VARIABLES
    hay_len,              \* haystack.len()
    hay_lf,               \* the indices i with haystack[i] == b'\n'
    base,                 \* haystack.as_ptr().addr() modulo 32
    arch,                 \* target_arch the crate was compiled for
    features,             \* CPU features the running CPU reports
    LINES_BWD_DISPATCH,   \* the process-wide dispatch slot
    offset,               \* lines_bwd's argument `offset`
    line_in,              \* lines_bwd's argument `line`
    line_stop_in,         \* lines_bwd's argument `line_stop`
    pc,                   \* where the call is
    func,                 \* the backend that is running
    lo,                   \* `beg` of the running lines_bwd_fallback call
    end,                  \* the local `end`, as an index from the haystack start
    line,                 \* the local `line`
    line_stop,            \* the local `line_stop` (clamped in the vector backends)
    rd,                   \* <<first, past-last>> index of the latest load
    calls,                \* number of lines_bwd calls made so far
    prev,                 \* <<arguments, result>> of the previous call, or <<>>
    threads,              \* the threads that call lines_bwd concurrently
    examined,             \* <<chunk_start, line_next>> of the chunk a vector loop
                          \* of the call last left by `break`, or <<>>
    build                 \* the build script's language tables and its position,
                          \* or <<>> where the build script is not looked at

vars == <<hay_len, hay_lf, base, arch, features, LINES_BWD_DISPATCH, offset,
          line_in, line_stop_in, pc, func, lo, end, line, line_stop, rd, calls, prev,
          threads, examined, build>>

\* What a scan leaves alone: the haystack, the platform, the other threads.
world == <<hay_len, hay_lf, base, arch, features, threads, build>>
args == <<offset, line_in, line_stop_in>>

(***************************************************************************)
(* The inputs the model draws from.                                        *)
(***************************************************************************)
\* Line-feed placements: the first byte of the haystack, the last byte of
\* every 32-byte block, and the last byte of the haystack.
LFCand(n) == {p \in 0..(n - 1) : p = 0 \/ p = n - 1 \/ p % W256 = W256 - 1}
LFSets(n) == {S \in SUBSET LFCand(n) : Cardinality(S) <= MaxLFs}
\* b"Hello\nWorld\n" of test::seeks_to_start.
HelloWorld == [len |-> 12, lf |-> {5, 11}]
Haystacks == {[len |-> 0, lf |-> {}], HelloWorld}
             \cup {[len |-> MaxLen, lf |-> S] : S \in LFSets(MaxLen)}
\* Addresses of the haystack's first byte, modulo the widest register.
Bases == {0, 1}
\* Offsets: every offset of a short haystack; of a long one those at and
\* just below every 32-byte boundary, the length, and one past the length
\* (which lines_bwd clamps).
Offsets(n) == {o \in 0..(n + 1) : n <= W128 \/ o >= n \/ o % W256 \in {0, W256 - 1}}
Lines == {CoordMin} \cup 0..MaxLine
LineStops == {CoordMin, 0, 1}
\* (target_arch, detected CPU features)
Platforms == {<<"x86_64", {"avx2"}>>, <<"x86_64", {}>>,
              <<"loongarch64", {"lasx", "lsx"}>>, <<"loongarch64", {"lsx"}>>,
              <<"loongarch64", {}>>, <<"aarch64", {}>>, <<"other", {}>>}

(***************************************************************************)
(* CoordType arithmetic: `a - b` on a signed integer of CoordBits bits.    *)
(* With overflow checks the subtraction panics when the result leaves the  *)
(* range; without them it wraps around.                                    *)
(***************************************************************************)
Overflows(x) == x < CoordMin \/ x > CoordMax
Wrap(x) == ((x - CoordMin) % (2 ^ CoordBits)) + CoordMin

IsLF(i) == i \in hay_lf

(***************************************************************************)
(* lines_bwd_fallback, one iteration of its loop from (e, l), scanning     *)
(* down to b with stop line ls.  `read` is the index the iteration loads,  *)
(* or -1 when it loads nothing.                                            *)
(***************************************************************************)
\* Mutant: stops only at `line == line_stop`, as the reference does.
FallbackStepEq(b, e, l, ls) ==
    IF e = b
    THEN [end |-> e, line |-> l, done |-> TRUE, read |-> -1, ovf |-> FALSE]
    ELSE LET n == e - 1 IN
         IF IsLF(n)
         THEN IF l = ls
              THEN [end |-> e, line |-> l, done |-> TRUE, read |-> n, ovf |-> FALSE]
              ELSE [end |-> n, line |-> Wrap(l - 1), done |-> FALSE, read |-> n,
                    ovf |-> Overflows(l - 1)]
         ELSE [end |-> n, line |-> l, done |-> FALSE, read |-> n, ovf |-> FALSE]

\* Mutant: `line < line_stop`, one line feed too late.
FallbackStepStrict(b, e, l, ls) ==
    IF e = b
    THEN [end |-> e, line |-> l, done |-> TRUE, read |-> -1, ovf |-> FALSE]
    ELSE LET n == e - 1 IN
         IF IsLF(n)
         THEN IF l < ls
              THEN [end |-> e, line |-> l, done |-> TRUE, read |-> n, ovf |-> FALSE]
              ELSE [end |-> n, line |-> Wrap(l - 1), done |-> FALSE, read |-> n,
                    ovf |-> Overflows(l - 1)]
         ELSE [end |-> n, line |-> l, done |-> FALSE, read |-> n, ovf |-> FALSE]

\* Mutant: `end = n` before the test, so the scan stops on the line feed
\* instead of past it.
FallbackStepPast(b, e, l, ls) ==
    IF e = b
    THEN [end |-> e, line |-> l, done |-> TRUE, read |-> -1, ovf |-> FALSE]
    ELSE LET n == e - 1 IN
         IF IsLF(n)
         THEN IF l <= ls
              THEN [end |-> n, line |-> l, done |-> TRUE, read |-> n, ovf |-> FALSE]
              ELSE [end |-> n, line |-> Wrap(l - 1), done |-> FALSE, read |-> n,
                    ovf |-> Overflows(l - 1)]
         ELSE [end |-> n, line |-> l, done |-> FALSE, read |-> n, ovf |-> FALSE]

\* Mutant: `end = n` is forgotten on a byte that is no line feed.
FallbackStepStay(b, e, l, ls) ==
    IF e = b
    THEN [end |-> e, line |-> l, done |-> TRUE, read |-> -1, ovf |-> FALSE]
    ELSE LET n == e - 1 IN
         IF IsLF(n)
         THEN IF l <= ls
              THEN [end |-> e, line |-> l, done |-> TRUE, read |-> n, ovf |-> FALSE]
              ELSE [end |-> n, line |-> Wrap(l - 1), done |-> FALSE, read |-> n,
                    ovf |-> Overflows(l - 1)]
         ELSE [end |-> e, line |-> l, done |-> FALSE, read |-> n, ovf |-> FALSE]

FallbackStep(b, e, l, ls) ==
    IF e = b
    THEN [end |-> e, line |-> l, done |-> TRUE, read |-> -1, ovf |-> FALSE]
    ELSE LET n == e - 1 IN
         IF IsLF(n)
         THEN IF l <= ls
              THEN [end |-> e, line |-> l, done |-> TRUE, read |-> n, ovf |-> FALSE]
              ELSE [end |-> n, line |-> Wrap(l - 1), done |-> FALSE, read |-> n,
                    ovf |-> Overflows(l - 1)]
         ELSE [end |-> n, line |-> l, done |-> FALSE, read |-> n, ovf |-> FALSE]

\* lines_bwd_fallback as a function: the loop run to its end.
RECURSIVE lines_bwd_fallback(_, _, _, _)
lines_bwd_fallback(b, e, l, ls) ==
    LET s == FallbackStep(b, e, l, ls) IN
    IF s.done THEN <<s.end, s.line>> ELSE lines_bwd_fallback(b, s.end, s.line, ls)

\* test::reference_lines_bwd.
RECURSIVE reference_loop(_, _, _)
reference_loop(o, l, ls) ==
    IF o > 0
    THEN IF IsLF(o - 1)
         THEN IF l = ls THEN <<o, l>> ELSE reference_loop(o - 1, Wrap(l - 1), ls)
         ELSE reference_loop(o - 1, l, ls)
    ELSE <<o, l>>

reference_lines_bwd(o, l, ls) ==
    IF l >= ls THEN reference_loop(o, l, ls) ELSE <<o, l>>

(***************************************************************************)
(* The backends.                                                           *)
(***************************************************************************)
Vector == {"lines_bwd_avx2", "lines_bwd_lasx", "lines_bwd_lsx", "lines_bwd_neon"}

\* Bytes of the backend's vector register.
Width(f) == IF f \in {"lines_bwd_avx2", "lines_bwd_lasx"} THEN W256 ELSE W128

\* Line feeds among the bytes [a, a + n): what compare-equal and the
\* subtract/and accumulate lane by lane.
CountLF(a, n) == Cardinality({i \in a..(a + n - 1) : IsLF(i)})

\* Mutant: only the first register of the chunk is accumulated.
HorizontalSumFirstRegister(f, a, n) == CountLF(a, Width(f))

\* The horizontal sum of the accumulated lanes, in the type the backend
\* reduces to: i64 (AVX2), u32 (LASX, LSX), u8 (NEON's vaddvq_u8).
HorizontalSum(f, a, n) ==
    IF f = "lines_bwd_neon" THEN CountLF(a, n) % 256 ELSE CountLF(a, n)

\* is_x86_feature_detected! / is_loongarch_feature_detected! in lines_bwd_dispatch.
Detect ==
    IF arch = "x86_64"
    THEN IF "avx2" \in features THEN "lines_bwd_avx2" ELSE "lines_bwd_fallback"
    ELSE IF "lasx" \in features THEN "lines_bwd_lasx"
         ELSE IF "lsx" \in features THEN "lines_bwd_lsx"
         ELSE "lines_bwd_fallback"

\* Does the platform run a vector backend?
HasVector(a, fs) == a = "aarch64" \/ fs # {}

Init ==
    /\ \E h \in Haystacks : hay_len = h.len /\ hay_lf = h.lf
    /\ \E p \in Platforms :
          /\ arch = p[1] /\ features = p[2]
          \* only the vector backends look at addresses
          /\ base \in IF HasVector(p[1], p[2]) THEN Bases ELSE {0}
    /\ LINES_BWD_DISPATCH = "lines_bwd_dispatch"
    /\ offset = 0 /\ line_in = 0 /\ line_stop_in = 0
    /\ pc = "idle" /\ func = "none"
    /\ lo = 0 /\ end = 0 /\ line = 0 /\ line_stop = 0
    /\ rd = <<0, 0>>
    /\ calls = 0
    /\ prev = <<>>
    /\ threads = <<>>
    /\ examined = <<>>
    /\ build = <<>>

\* Mutant: the offset is taken as it comes.
Unclamped(o) == o

\* `offset.min(haystack.len())`
ClampOffset(o) == Min(o, hay_len)

\* lines_bwd: clamp the offset and hand over to lines_bwd_raw.
Enter(o, l, ls) ==
    /\ offset' = o /\ line_in' = l /\ line_stop_in' = ls
    /\ end' = ClampOffset(o)
    /\ line' = l
    /\ line_stop' = ls
    /\ lo' = 0
    /\ rd' = <<0, 0>>
    /\ examined' = <<>>
    /\ func' = "none"
    /\ pc' = "raw"
    /\ calls' = calls + 1

Call ==
    /\ pc = "idle"
    /\ \E o \in Offsets(hay_len), l \in Lines, ls \in LineStops : Enter(o, l, ls)
    /\ prev' = <<>>
    /\ UNCHANGED <<world, LINES_BWD_DISPATCH>>

\* lines_bwd_raw: the backend the target architecture compiles in.
Raw ==
    /\ pc = "raw"
    /\ func' = CASE arch \in {"x86_64", "loongarch64"} -> LINES_BWD_DISPATCH
                 [] arch = "aarch64" -> "lines_bwd_neon"
                 [] OTHER -> "lines_bwd_fallback"
    /\ pc' = "enter"
    /\ UNCHANGED <<world, examined, LINES_BWD_DISPATCH, args, lo, end, line, line_stop, rd,
                   calls, prev>>

\* lines_bwd_dispatch: detect, store the backend in the slot, call it.
Dispatch ==
    /\ pc = "enter" /\ func = "lines_bwd_dispatch"
    /\ func' = Detect
    /\ LINES_BWD_DISPATCH' = Detect
    /\ UNCHANGED <<world, examined, args, pc, lo, end, line, line_stop, rd, calls, prev>>

\* Entry of lines_bwd_fallback called as the backend.
EnterFallback ==
    /\ pc = "enter" /\ func = "lines_bwd_fallback"
    /\ lo' = 0
    /\ pc' = "final"
    /\ UNCHANGED <<world, examined, LINES_BWD_DISPATCH, args, func, end, line, line_stop, rd,
                   calls, prev>>

\* Mutant: the offset from the haystack start is masked, not the address.
MisalignFromBeg(f, e) == e % Width(f)

\* `end.addr() & (width - 1)`
Misalign(f, e) == (base + e) % Width(f)

\* Mutant: the prologue is not bounded by the haystack start.
PrologueRunsUnbounded(f, e) == Misalign(f, e) # 0

\* `off != 0 && off < end.offset_from_unsigned(beg)`
PrologueRuns(f, e) == Misalign(f, e) # 0 /\ Misalign(f, e) < e

\* Entry of a vector backend: clamp line_stop, decide on the prologue.
EnterVector ==
    /\ pc = "enter" /\ func \in Vector
    /\ line_stop' = Min(line_stop, line)
    /\ IF PrologueRuns(func, end)
       THEN lo' = end - Misalign(func, end) /\ pc' = "prologue"
       ELSE lo' = 0 /\ pc' = "wide"
    /\ UNCHANGED <<world, examined, LINES_BWD_DISPATCH, args, func, end, line, rd, calls, prev>>

\* One iteration of lines_bwd_fallback scanning down to b: in the prologue
\* (b = end - off, then on to the wide loop) or as the final scan (b = beg,
\* then the call returns).
ScalarStep(at, next, b) ==
    /\ pc = at
    /\ LET s == FallbackStep(b, end, line, line_stop) IN
        /\ end' = s.end
        /\ line' = s.line
        /\ rd' = IF s.read < 0 THEN <<0, 0>> ELSE <<s.read, s.read + 1>>
        /\ pc' = IF s.done THEN next ELSE at
    /\ UNCHANGED <<world, examined, LINES_BWD_DISPATCH, args, func, lo, line_stop, calls, prev>>

PrologueStep == ScalarStep("prologue", "wide", lo)
FinalStep == ScalarStep("final", "done", 0)

\* Mutant: `end = chunk_start` before the test, so the chunk the loop stops
\* on is consumed.
ChunkStepConsumes(at, next, n) ==
    /\ pc = at
    /\ IF end >= n
       THEN LET chunk_start == end - n
                sum == HorizontalSum(func, chunk_start, n)
                line_next == line - sum
            IN  /\ rd' = <<chunk_start, chunk_start + n>>
                /\ \/ /\ ~Overflows(line_next)
                      /\ IF line_next <= line_stop
                         THEN /\ pc' = next
                              /\ examined' = <<chunk_start, line_next>>
                              /\ end' = chunk_start /\ UNCHANGED line
                         ELSE /\ pc' = at /\ end' = chunk_start /\ line' = line_next
                              /\ UNCHANGED examined
                   \/ /\ Overflows(line_next)
                      /\ pc' = "panic" /\ UNCHANGED <<end, line, examined>>
                   \/ /\ Overflows(line_next)
                      /\ IF Wrap(line_next) <= line_stop
                         THEN /\ pc' = next
                              /\ examined' = <<chunk_start, Wrap(line_next)>>
                              /\ end' = chunk_start /\ UNCHANGED line
                         ELSE /\ pc' = at /\ end' = chunk_start
                              /\ line' = Wrap(line_next)
                              /\ UNCHANGED examined
       ELSE pc' = next /\ UNCHANGED <<end, line, rd, examined>>
    /\ UNCHANGED <<world, LINES_BWD_DISPATCH, args, func, line_stop, lo, calls, prev>>

\* One evaluation of a vector loop's condition and, if it holds, its body,
\* over chunks of n bytes; the loop is left for `next`.
ChunkStep(at, next, n) ==
    /\ pc = at
    /\ IF end >= n
       THEN LET chunk_start == end - n
                sum == HorizontalSum(func, chunk_start, n)
                line_next == line - sum
            IN  /\ rd' = <<chunk_start, chunk_start + n>>
                /\ \/ /\ ~Overflows(line_next)
                      /\ IF line_next <= line_stop
                         THEN /\ pc' = next
                              /\ examined' = <<chunk_start, line_next>>
                              /\ UNCHANGED <<end, line>>
                         ELSE /\ pc' = at /\ end' = chunk_start /\ line' = line_next
                              /\ UNCHANGED examined
                   \/ /\ Overflows(line_next)
                      /\ pc' = "panic" /\ UNCHANGED <<end, line, examined>>
                   \/ /\ Overflows(line_next)
                      /\ IF Wrap(line_next) <= line_stop
                         THEN /\ pc' = next
                              /\ examined' = <<chunk_start, Wrap(line_next)>>
                              /\ UNCHANGED <<end, line>>
                         ELSE /\ pc' = at /\ end' = chunk_start
                              /\ line' = Wrap(line_next)
                              /\ UNCHANGED examined
       ELSE pc' = next /\ UNCHANGED <<end, line, rd, examined>>
    /\ UNCHANGED <<world, LINES_BWD_DISPATCH, args, func, line_stop, lo, calls, prev>>

WideStep == ChunkStep("wide", "narrow", WideRegs * Width(func))
NarrowStep == ChunkStep("narrow", "final", Width(func))

\* The caller calls again with what the call returned and the same line_stop.
Recall ==
    /\ pc = "done" /\ calls = 1
    /\ prev' = <<offset, line_in, end, line>>
    /\ Enter(end, line, line_stop_in)
    /\ UNCHANGED <<world, LINES_BWD_DISPATCH>>

Next ==
    \/ Call
    \/ Raw
    \/ Dispatch
    \/ EnterFallback
    \/ EnterVector
    \/ PrologueStep
    \/ WideStep
    \/ NarrowStep
    \/ FinalStep
    \/ Recall

Spec == Init /\ [][Next]_vars

(***************************************************************************)
(* Threads calling lines_bwd concurrently on x86_64 and loongarch64, where *)
(* lines_bwd_raw calls through the slot LINES_BWD_DISPATCH.  The slot is a *)
(* `static mut` read and written without synchronisation; a pointer-sized  *)
(* load or store is a single access on these targets, so a racing read     *)
(* sees the value before or after a store, which the interleaving of       *)
(* TRead and TStore produces.  A scan touches nothing shared, so the scans *)
(* of the threads are run one after the other on the state of the single   *)
(* call, while the other threads' reads, detections and stores interleave. *)
(***************************************************************************)
\* Threads of the process.
NThreads == 2
\* Calls of lines_bwd a thread makes.
ThreadCalls == 2

Threads == 1..NThreads
\* The haystack the threads scan, and the calls they make on it.
DispatchHaystack == [len |-> MaxLen, lf |-> {0, MaxLen - 1}]
DispatchCalls == {<<MaxLen, 1, 0>>, <<WideRegs * W128, CoordMin, CoordMin>>}
DispatchPlatforms == {p \in Platforms : p[1] \in {"x86_64", "loongarch64"}}

\* Thread t goes to control location at, with func f and det detections.
ThreadAt(t, at, f, det, n) ==
    threads' = [threads EXCEPT ![t] = [pc |-> at, func |-> f, det |-> det, calls |-> n]]

InitDispatch ==
    /\ hay_len = DispatchHaystack.len /\ hay_lf = DispatchHaystack.lf
    /\ base = 0
    /\ \E p \in DispatchPlatforms : arch = p[1] /\ features = p[2]
    /\ LINES_BWD_DISPATCH = "lines_bwd_dispatch"
    /\ offset = 0 /\ line_in = 0 /\ line_stop_in = 0
    /\ pc = "idle" /\ func = "none"
    /\ lo = 0 /\ end = 0 /\ line = 0 /\ line_stop = 0
    /\ rd = <<0, 0>>
    /\ examined = <<>>
    /\ calls = 0
    /\ prev = <<>>
    /\ threads = [t \in Threads |->
                    [pc |-> "idle", func |-> "none", det |-> 0, calls |-> 0]]
    /\ build = <<>>

scan == <<offset, line_in, line_stop_in, pc, func, lo, end, line, line_stop, rd,
          examined,
          calls, prev>>
platform == <<hay_len, hay_lf, base, arch, features, build>>

\* lines_bwd_raw: load the function pointer from the slot.
TRead(t) ==
    /\ threads[t].pc = "idle" /\ threads[t].calls < ThreadCalls
    /\ ThreadAt(t, IF LINES_BWD_DISPATCH = "lines_bwd_dispatch" THEN "detect" ELSE "ready",
                LINES_BWD_DISPATCH, threads[t].det, threads[t].calls)
    /\ UNCHANGED <<platform, LINES_BWD_DISPATCH, scan>>

\* lines_bwd_dispatch: detect the CPU features.
TDetect(t) ==
    /\ threads[t].pc = "detect"
    /\ ThreadAt(t, "store", Detect, threads[t].det + 1, threads[t].calls)
    /\ UNCHANGED <<platform, LINES_BWD_DISPATCH, scan>>

\* lines_bwd_dispatch: store the backend in the slot.
TStore(t) ==
    /\ threads[t].pc = "store"
    /\ LINES_BWD_DISPATCH' = threads[t].func
    /\ ThreadAt(t, "ready", threads[t].func, threads[t].det, threads[t].calls)
    /\ UNCHANGED <<platform, scan>>

\* The thread calls the backend it holds.
TBegin(t) ==
    /\ threads[t].pc = "ready" /\ pc = "idle"
    /\ \E a \in DispatchCalls :
          /\ offset' = a[1] /\ line_in' = a[2] /\ line_stop_in' = a[3]
          /\ end' = ClampOffset(a[1])
          /\ line' = a[2]
          /\ line_stop' = a[3]
    /\ func' = threads[t].func
    /\ pc' = "enter"
    /\ ThreadAt(t, "scan", threads[t].func, threads[t].det, threads[t].calls)
    /\ UNCHANGED <<platform, LINES_BWD_DISPATCH, lo, rd, examined, calls, prev>>

\* The backend returns, or panics, to the thread.
TEnd(t) ==
    /\ threads[t].pc = "scan" /\ pc \in {"done", "panic"}
    /\ offset' = 0 /\ line_in' = 0 /\ line_stop_in' = 0
    /\ pc' = "idle" /\ func' = "none"
    /\ lo' = 0 /\ end' = 0 /\ line' = 0 /\ line_stop' = 0
    /\ rd' = <<0, 0>>
    /\ examined' = <<>>
    /\ ThreadAt(t, "idle", "none", threads[t].det, threads[t].calls + 1)
    /\ UNCHANGED <<platform, LINES_BWD_DISPATCH, calls, prev>>

NextDispatch ==
    \/ \E t \in Threads : TRead(t)
    \/ \E t \in Threads : TDetect(t)
    \/ \E t \in Threads : TStore(t)
    \/ \E t \in Threads : TBegin(t)
    \/ \E t \in Threads : TEnd(t)
    \/ EnterFallback
    \/ EnterVector
    \/ PrologueStep
    \/ WideStep
    \/ NarrowStep
    \/ FinalStep

SpecDispatch == InitDispatch /\ [][NextDispatch]_vars

(***************************************************************************)
(* build.rs, compile_i18n: the sort of the language tables.  A tag is a    *)
(* string of bytes, here a sequence of byte values; strings compare as     *)
(* Rust's str::cmp does, byte by byte and then by length.                  *)
(***************************************************************************)
\* Longest tag.
MaxTagLen == 3
\* Language tags specified beside "en".
MaxLangs == 2
\* Longest alias.
MaxAliasLen == 1

\* b'_', b'e', b'z': bytes of the normalized tags.
Underscore == 95
TagBytes == {Underscore, 101, 122}
en == <<101, 110>>
\* "xxxxxx"
NoSubtag == <<120, 120, 120, 120, 120, 120>>

Tags == UNION {[1..n -> TagBytes] : n \in 1..MaxTagLen}

\* str::cmp
RECURSIVE cmp(_, _)
cmp(a, b) ==
    IF a = <<>> /\ b = <<>> THEN "Equal"
    ELSE IF a = <<>> THEN "Less"
    ELSE IF b = <<>> THEN "Greater"
    ELSE IF Head(a) < Head(b) THEN "Less"
    ELSE IF Head(a) > Head(b) THEN "Greater"
    ELSE cmp(Tail(a), Tail(b))

\* a.split_once('_').unwrap_or((a, "xxxxxx"))
split_once(a) ==
    LET us == {i \in 1..Len(a) : a[i] = Underscore} IN
    IF us = {}
    THEN <<a, NoSubtag>>
    ELSE LET i == CHOOSE k \in us : \A m \in us : k <= m
         IN  <<SubSeq(a, 1, i - 1), SubSeq(a, i + 1, Len(a))>>

\* fn sort(a, b)
sort(a, b) ==
    IF a = en /\ b # en THEN "Less"
    ELSE IF a # en /\ b = en THEN "Greater"
    ELSE LET sa == split_once(a)
             sb == split_once(b)
         IN  IF cmp(sa[1], sb[1]) = "Equal"
             THEN cmp(sa[2], sb[2])
             ELSE cmp(sa[1], sb[1])

\* The outcomes of v.sort_unstable_by(|a, b| sort(&a.0, &b.0)): the
\* rearrangements of v in which no element is Greater than a later one.
sort_unstable_by(v) ==
    {w \in [1..Len(v) -> {v[i] : i \in 1..Len(v)}] :
        /\ \A i \in 1..Len(v) : \E j \in 1..Len(v) : w[j] = v[i]
        /\ \A i, j \in 1..Len(v) : i < j => sort(w[i][1], w[j][1]) # "Greater"}

\* The tables as they reach the sort: distinct tags with "en" among them,
\* each as its own alias, and one alias that is not a specified tag.
InitSort ==
    /\ hay_len = 0 /\ hay_lf = {} /\ base = 0
    /\ arch = "other" /\ features = {}
    /\ LINES_BWD_DISPATCH = "lines_bwd_dispatch"
    /\ offset = 0 /\ line_in = 0 /\ line_stop_in = 0
    /\ pc = "build" /\ func = "none"
    /\ lo = 0 /\ end = 0 /\ line = 0 /\ line_stop = 0
    /\ rd = <<0, 0>>
    /\ examined = <<>>
    /\ calls = 0
    /\ prev = <<>>
    /\ threads = <<>>
    /\ \E languages \in [1..(MaxLangs + 1) -> Tags \cup {en}] :
          /\ \E i \in DOMAIN languages : languages[i] = en
          /\ \A i, j \in DOMAIN languages : languages[i] = languages[j] => i = j
          /\ \E alias \in {t \in Tags : Len(t) <= MaxAliasLen} :
                /\ \A i \in DOMAIN languages : languages[i] # alias
                /\ build = [pc |-> "sort",
                            languages |-> [i \in DOMAIN languages |-> <<languages[i]>>],
                            languages_with_aliases |->
                                [i \in DOMAIN languages |->
                                    <<languages[i], languages[i]>>]
                                \o <<<<alias, languages[1]>>>>]

\* languages.sort_unstable_by(sort)
SortLanguages ==
    /\ build # <<>> /\ build.pc = "sort"
    /\ \E w \in sort_unstable_by(build.languages) :
          build' = [build EXCEPT !.languages = w, !.pc = "sort_aliases"]
    /\ UNCHANGED <<hay_len, hay_lf, base, arch, features, threads, LINES_BWD_DISPATCH,
                   scan>>

\* languages_with_aliases.sort_unstable_by(|a, b| sort(&a.0, &b.0))
SortAliases ==
    /\ build # <<>> /\ build.pc = "sort_aliases"
    /\ \E w \in sort_unstable_by(build.languages_with_aliases) :
          build' = [build EXCEPT !.languages_with_aliases = w, !.pc = "generate"]
    /\ UNCHANGED <<hay_len, hay_lf, base, arch, features, threads, LINES_BWD_DISPATCH,
                   scan>>

NextSort ==
    \/ SortLanguages
    \/ SortAliases

SpecSort == InitSort /\ [][NextSort]_vars

(***************************************************************************)
(* What the claims speak of.                                               *)
(***************************************************************************)
Returned == pc = "done"
Panicked == pc = "panic"
InCall == pc \in {"raw", "enter", "prologue", "wide", "narrow", "final", "done"}
Result == <<end, line>>
\* The offset lines_bwd starts from.
Start == Min(offset, hay_len)
\* The scalar scanner run on the arguments of the call.
Scalar == lines_bwd_fallback(0, Start, line_in, line_stop_in)
\* A vector backend runs the call.
ByVector == func \in Vector
\* The start of the line that holds offset o.
LineStart(o) == CHOOSE p \in 0..o :
                    /\ p = 0 \/ IsLF(p - 1)
                    /\ \A q \in (p + 1)..o : ~IsLF(q - 1)
\* The latest step loaded bytes.
Loaded == rd[1] < rd[2]

\* C1: every vector backend, and the backend dispatch chooses, completes and
\* returns the pair the scalar scanner returns for the same haystack, offset
\* in [0, len], line and line_stop.
C1_BackendsMatchScalar ==
    offset <= hay_len =>
        /\ ~Panicked
        /\ Returned => Result = Scalar

\* The calls test::pseudo_fuzz makes: line >= line_stop >= 0.
C2_Domain == offset <= hay_len /\ line_stop_in >= 0 /\ line_in >= line_stop_in
\* C2: for line_stop >= 0 and line >= line_stop, lines_bwd completes and
\* returns what test::reference_lines_bwd returns.
C2_MatchesReferenceOrdered ==
    C2_Domain =>
        /\ ~Panicked
        /\ Returned => Result = reference_lines_bwd(offset, line_in, line_stop_in)
C2_Witness ==
    /\ Returned /\ C2_Domain /\ ByVector
    /\ line_in > line_stop_in /\ line = line_stop_in /\ 0 < end /\ end < offset

C3_Domain == offset <= hay_len /\ line_stop_in >= 0 /\ line_in >= 0
C4_SeeksToLineStart ==
    (offset <= hay_len /\ line_in <= line_stop_in) =>
        /\ ~Panicked
        /\ Returned => Result = <<LineStart(offset), line_in>>

\* C5: with line >= line_stop, the returned line is never below line_stop,
\* and it is line_stop whenever the returned offset is above 0.
C5_SeeksToLineStop ==
    (Returned /\ line_in >= line_stop_in) =>
        /\ line >= line_stop_in
        /\ end > 0 => line = line_stop_in
C5_Witness ==
    /\ Returned /\ ByVector /\ line_in > line_stop_in
    /\ end > 0 /\ end < Start /\ line = line_stop_in

\* C6: the returned offset is 0 or the byte before it is a line feed.
C6_ReturnsLineStart ==
    Returned => (end = 0 \/ IsLF(end - 1))
C6_Witness ==
    Returned /\ ByVector /\ end > 0 /\ end < Start /\ IsLF(end - 1)

\* C7: at every step of a call the position is at most the input offset
\* and the line counter at most the input line.
C7_Monotone ==
    InCall => (end <= offset /\ line <= line_in)

\* C8: calling again with the returned offset and line and the same
\* line_stop completes and returns the same pair.
C8_Idempotent ==
    calls = 2 =>
        /\ ~Panicked
        /\ Returned => Result = <<prev[3], prev[4]>>

\* C9: a call with offset 0 loads no byte, moves nowhere, and returns
\* (0, line); the haystack may be empty.
C9_OffsetZero ==
    (InCall /\ offset = 0) =>
        /\ ~Loaded
        /\ Result = <<0, line_in>>
C9_Witness ==
    Returned /\ offset = 0 /\ ByVector /\ hay_len = 0 /\ base # 0 /\ calls = 1

\* C10: every byte loaded lies in [0, len), the prologue's lower bound is
\* not before the haystack, and the position never leaves [0, len], also
\* when the offset is beyond the length.
C10_MemorySafe ==
    /\ Loaded => (0 <= rd[1] /\ rd[2] <= hay_len)
    /\ InCall => (0 <= end /\ end <= hay_len)
    /\ pc = "prologue" => (0 <= lo /\ lo <= end)
C10_Witness ==
    /\ offset > hay_len /\ ByVector /\ rd[2] - rd[1] = WideRegs * W256

\* The loops of a call: the scalar scanner's loop (in the prologue and as
\* the final scan) and the two vector loops.
Loops == {"prologue", "wide", "narrow", "final"}
\* How far the call has come: the stages of a call in the order the code
\* runs through them.
Stage ==
    CASE pc = "idle" -> 8
      [] pc = "raw" -> 7
      [] pc = "enter" /\ func = "lines_bwd_dispatch" -> 6
      [] pc = "enter" -> 5
      [] pc = "prologue" -> 4
      [] pc = "wide" -> 3
      [] pc = "narrow" -> 2
      [] pc = "final" -> 1
      [] OTHER -> 0
\* A measure of what is left to do: calls to make, stages of the call to
\* run through, bytes between the position and the haystack start.
Rank == ((2 - calls) * 9 + Stage) * (hay_len + 2) + end
\* The call is over: it returned to a caller that calls no more, or it
\* panicked.
Over == Panicked \/ (Returned /\ calls = 2)

\* C11: every call finishes: every iteration of a loop moves the position
\* closer to the haystack start (never before it) or leaves the loop, every
\* step whatsoever lowers a measure that is never negative, and the call
\* only ever stops where it is over.
C11_Terminates ==
    /\ [][/\ pc \in Loops => (pc' # pc \/ (end' < end /\ end' >= 0))
          /\ Rank' < Rank
          /\ Rank' >= 0]_vars
    /\ [](Over \/ ENABLED Next)
C11_Witness ==
    /\ Returned /\ calls = 2 /\ ByVector /\ line_in < line_stop_in
    /\ prev[3] < prev[1]

\* Thread t has stored into the slot.
HasStored(t) == threads[t].det = 1 /\ threads[t].pc \notin {"detect", "store"}

\* The slot only ever holds the resolver or the backend the CPU features
\* determine, every writer stores that backend, a thread calls only that
\* backend, the slot keeps it once a thread has stored it, and no thread
\* detects more than once.
C12_SlotSettles ==
    /\ LINES_BWD_DISPATCH \in {"lines_bwd_dispatch", Detect}
    /\ \A t \in DOMAIN threads :
          /\ threads[t].pc = "store" => threads[t].func = Detect
          /\ threads[t].pc \in {"ready", "scan"} => threads[t].func = Detect
          /\ HasStored(t) => LINES_BWD_DISPATCH = Detect
          /\ threads[t].det <= 1

\* C12: the slot only ever holds the resolver or the backend the CPU
\* features determine; every writer stores that backend; once a store has
\* happened the slot holds it for good; no thread detects more than once,
\* and only a thread that read the resolver detects; and every call
\* completes with the scalar scanner's result, whichever value it read.
C12_DispatchRaceBenign ==
    /\ C12_SlotSettles
    /\ \A t \in DOMAIN threads :
          threads[t].pc = "scan" =>
              /\ ~Panicked
              /\ Returned => Result = Scalar
\* Two threads both read the resolver and both detect.
C12_SlotWitness ==
    /\ \A t \in DOMAIN threads : threads[t].det = 1
    /\ DOMAIN threads # {}
    /\ LINES_BWD_DISPATCH = Detect

\* The subtraction the next iteration of a vector loop over chunks of n
\* bytes performs leaves the range of CoordType.
ChunkOverflows(n) ==
    end >= n /\ Overflows(line - HorizontalSum(func, end - n, n))

\* C13: for every offset in [0, len] and every line and line_stop of
\* CoordType, neither `line - 1` of the scalar scanner nor `line - sum` of a
\* vector loop leaves the range of CoordType, no call panics, and the call
\* returns the scalar scanner's pair.
C13_NoOverflow ==
    offset <= hay_len =>
        /\ pc = "prologue" => ~FallbackStep(lo, end, line, line_stop).ovf
        /\ pc = "final" => ~FallbackStep(0, end, line, line_stop).ovf
        /\ pc = "wide" => ~ChunkOverflows(WideRegs * Width(func))
        /\ pc = "narrow" => ~ChunkOverflows(Width(func))
        /\ ~Panicked
        /\ Returned => Result = Scalar

\* The scalar scanner's part of C13: `line - 1` never overflows.
C13_ScalarNoOverflow ==
    /\ pc = "prologue" => ~FallbackStep(lo, end, line, line_stop).ovf
    /\ pc = "final" => ~FallbackStep(0, end, line, line_stop).ovf

\* A vector loop of the call examined a chunk and left by `break`.
Broke == examined # <<>>

\* C14 as stated: when a vector loop stopped on a chunk because
\* line_next <= line_stop, the position the call returns is not before the
\* start of that chunk.
C14_ReturnsWithinChunk ==
    (Returned /\ Broke) => end >= examined[1]

\* C14, amended: the final scalar scan resumes at the end of the chunk and is
\* bounded by the start of the haystack, not by the chunk: when
\* line_next < line_stop the position returned lies inside the chunk, after
\* its start; when line_next = line_stop the scan consumes every line feed
\* of the chunk and runs on below it, to the start of the line that holds
\* the first byte of the chunk.
C14_ReturnsWithinLine ==
    (Returned /\ Broke) =>
        IF examined[2] < line_stop
        THEN end > examined[1]
        ELSE end = LineStart(examined[1])

\* A call whose narrow loop stopped on a chunk holding exactly
\* line - line_stop line feeds returns a position below that chunk.
C14_Witness ==
    /\ Returned /\ Broke /\ ByVector
    /\ examined[2] = line_stop
    /\ 0 < end /\ end < examined[1]

\* Position e of the haystack is at an address that is a multiple of the
\* register width of the backend that runs.
Aligned(e) == (base + e) % Width(func) = 0
\* The latest step was a vector loop loading a chunk.
ChunkLoaded == ByVector /\ rd[2] - rd[1] > 1
VectorLoops == {"wide", "narrow"}

\* C15 as stated: every chunk the wide or narrow loop loads ends at an
\* address that is a multiple of the register width.
C15_ChunksAligned ==
    ChunkLoaded => Aligned(rd[2])

\* C15, amended: the vector loops start at an aligned position when the
\* prologue ran down to its bound or the position was aligned already; they
\* start with fewer bytes than a register when the prologue was skipped for
\* lack of bytes; and they start right after a line feed, above the bound,
\* when the prologue stopped early on it with line <= line_stop.  Every
\* chunk loaded ends where the loops stand, and the loops move by multiples
\* of the register width only.
C15_AlignedUnlessStoppedEarly ==
    /\ [][(pc = "enter" /\ pc' = "wide") =>
             (Aligned(end)' \/ end' < Width(func)')]_vars
    /\ [][(pc = "prologue" /\ pc' = "wide") =>
             \/ Aligned(end)' /\ end' = lo
             \/ /\ end' > lo /\ IsLF(end' - 1) /\ line' <= line_stop
                /\ ~Aligned(end)']_vars
    /\ [][(pc \in VectorLoops /\ pc' \in VectorLoops \cup {"final"}) =>
             /\ (end - end') % Width(func) = 0
             /\ rd' # rd => rd'[2] = end]_vars

\* A vector loop loaded a chunk that ends at an unaligned address.
C15_Witness ==
    /\ ChunkLoaded /\ ~Aligned(rd[2])
    /\ pc \in {"narrow", "final"}
    /\ line_in >= 0

\* The number of line feeds in haystack[a .. b).
LineFeeds(a, b) == Cardinality({i \in hay_lf : a <= i /\ i < b})

\* C16: at every step of the scan, after each scalar byte step and after
\* each consumed chunk, and for the pair returned, the input line minus the
\* current line is the number of line feeds between the current position
\* and the clamped input offset.
C16_Accounting ==
    pc \in {"enter", "prologue", "wide", "narrow", "final", "done"} =>
        line_in - line = LineFeeds(end, Start)

\* C16 for the calls whose line is above the bottom of CoordType.
C16_AccountingAboveMin ==
    line_in > CoordMin => C16_Accounting

\* The tags of a table in the table's order.
Keys(v) == [i \in DOMAIN v |-> v[i][1]]
\* The primary tag and whether the tag has a subtag.
Primary(t) == IF \E i \in 1..Len(t) : t[i] = Underscore
              THEN SubSeq(t, 1, (CHOOSE i \in 1..Len(t) :
                                    /\ t[i] = Underscore
                                    /\ \A k \in 1..(i - 1) : t[k] # Underscore) - 1)
              ELSE t
HasSubtag(t) == \E i \in 1..Len(t) : t[i] = Underscore
\* Both tables have been sorted.
Sorted == build # <<>> /\ build.pc = "generate"

\* "en" comes first and the other tags are in the alphabetical order of
\* their primary tags.
EnFirstAlphabetical(k) ==
    /\ \A i \in DOMAIN k : k[i] = en => i = 1
    /\ \A i, j \in DOMAIN k :
          (i < j /\ k[i] # en /\ k[j] # en) =>
              cmp(Primary(k[i]), Primary(k[j])) # "Greater"
\* Among the tags that share a primary tag, those with a subtag come before
\* the one without.
SubtagsFirst(k) ==
    \A i, j \in DOMAIN k :
        (/\ Primary(k[i]) = Primary(k[j])
         /\ HasSubtag(k[i]) /\ ~HasSubtag(k[j])) => i < j

\* C17: after the sort "en" comes first, the other tags are ordered
\* alphabetically by primary tag, and among the tags that share a primary
\* tag every tag with a subtag comes before the tag without one; the same
\* holds for the alias table.
C17_LanguageOrder ==
    Sorted =>
        /\ EnFirstAlphabetical(Keys(build.languages))
        /\ SubtagsFirst(Keys(build.languages))
        /\ EnFirstAlphabetical(Keys(build.languages_with_aliases))
        /\ SubtagsFirst(Keys(build.languages_with_aliases))

\* The part of C17 about "en" and the primary tags.
C17_EnFirstAlphabetical ==
    Sorted =>
        /\ EnFirstAlphabetical(Keys(build.languages))
        /\ EnFirstAlphabetical(Keys(build.languages_with_aliases))

\* C17 for the tables none of whose subtags is "xxxxxx" or sorts after it.
C17_LanguageOrderBelowNoSubtag ==
    (/\ Sorted
     /\ \A i \in DOMAIN build.languages_with_aliases :
           LET t == build.languages_with_aliases[i][1]
           IN  HasSubtag(t) => cmp(split_once(t)[2], NoSubtag) = "Less")
    => C17_LanguageOrder

====
